---- MODULE Spec2Model ----
(***************************************************************************)
(* The user REST API of the repository: the in-memory store mockedUsers,   *)
(* the express-validator rule chains of userValidationSchemas, the gate    *)
(* handleValidationErrors, the lookup resolvedFindUserMiddleware and the   *)
(* route handlers of createTestApp ("the validated API"), and the          *)
(* standalone server of src/index.js with validateUserCreationSchema.      *)
(*                                                                         *)
(* A JavaScript string is a sequence of one-character strings, a          *)
(* JavaScript value is a record [t, s, n] (type tag, string content,       *)
(* numeric content), a JavaScript object is a function from its own keys   *)
(* to values, and a JSON request body is the sequence of its key/value     *)
(* pairs in the order the keys were written.                               *)
(***************************************************************************)
EXTENDS Integers, Sequences, FiniteSets, TLC

VARIABLES mockedUsers, lastReq, lastRes, ran, deleted, nreq, pending

vars == <<mockedUsers, lastReq, lastRes, ran, deleted, nreq, pending>>

(***************************************************************************)
(* Bounds.                                                                 *)
(***************************************************************************)
\* number of requests one behaviour sends to the server
MaxRequests == 2

\* number of create requests in flight at once
MaxInFlight == 2

\* number of requests of a behaviour that empties the store
MaxDrain == 6

(***************************************************************************)
(* JavaScript values.                                                      *)
(***************************************************************************)
Str(s) == [t |-> "str", s |-> s, n |-> 0]

Num(n) == [t |-> "num", s |-> <<>>, n |-> n]

Undefined == [t |-> "undefined", s |-> <<>>, n |-> 0]

Null == [t |-> "null", s |-> <<>>, n |-> 0]

NaN == [t |-> "nan", s |-> <<>>, n |-> 0]

\* a === b : NaN is not equal to anything, itself included
StrictEq(a, b) == a.t # "nan" /\ b.t # "nan" /\ a = b

DigitChars == <<"0", "1", "2", "3", "4", "5", "6", "7", "8", "9">>

Digits == {DigitChars[i] : i \in 1..10}

DigitVal(c) == (CHOOSE i \in 1..10 : DigitChars[i] = c) - 1

Letters == {"a", "b", "c", "d", "e", "f", "g", "h", "i", "j", "k", "l", "m",
            "n", "o", "p", "q", "r", "s", "t", "u", "v", "w", "x", "y", "z",
            "A", "B", "C", "D", "E", "F", "G", "H", "I", "J", "K", "L", "M",
            "N", "O", "P", "Q", "R", "S", "T", "U", "V", "W", "X", "Y", "Z"}

\* the characters of the class [a-zA-Z0-9_]
WordChars == Letters \cup Digits \cup {"_"}

\* the characters String.prototype.trim and validator's trim strip
Whitespace == {" ", "\t", "\n"}

RECURSIVE NatToString(_)
\* String(n) of a non-negative integer
NatToString(n) ==
  IF n < 10 THEN <<DigitChars[n + 1]>>
  ELSE NatToString(n \div 10) \o <<DigitChars[(n % 10) + 1]>>

\* String(n) of an integer
IntToString(n) == IF n < 0 THEN <<"-">> \o NatToString(0 - n) ELSE NatToString(n)

\* express-validator's toString: what the standard validators and the
\* sanitizers are applied to
toString(v) ==
  CASE v.t = "str" -> v.s
    [] v.t = "num" -> IntToString(v.n)
    [] v.t = "nan" -> <<"N", "a", "N">>
    [] OTHER -> <<>>

RECURSIVE DigitPrefixLen(_)
\* the length of the longest prefix of s made of decimal digits
DigitPrefixLen(s) ==
  IF s = <<>> \/ Head(s) \notin Digits THEN 0 ELSE 1 + DigitPrefixLen(Tail(s))

RECURSIVE DigitsToNat(_, _)
\* the number written by the digit string s, after the digits worth acc
DigitsToNat(s, acc) ==
  IF s = <<>> THEN acc ELSE DigitsToNat(Tail(s), acc * 10 + DigitVal(Head(s)))

RECURSIVE SkipWhitespace(_)
SkipWhitespace(s) ==
  IF s # <<>> /\ Head(s) \in Whitespace THEN SkipWhitespace(Tail(s)) ELSE s

\* parseInt(s), radix 10: leading whitespace, an optional sign, then the
\* longest run of digits; NaN when there is no digit
parseInt(s) ==
  LET body == SkipWhitespace(s)
      signed == body # <<>> /\ Head(body) \in {"-", "+"}
      rest == IF signed THEN Tail(body) ELSE body
      k == DigitPrefixLen(rest)
      m == DigitsToNat(SubSeq(rest, 1, k), 0)
  IN IF k = 0 THEN NaN
     ELSE IF signed /\ Head(body) = "-" THEN Num(0 - m) ELSE Num(m)

(***************************************************************************)
(* validator.js checks and sanitizers, on strings.                         *)
(***************************************************************************)
isEmpty(s) == Len(s) = 0

isLength(s, min, max) == Len(s) >= min /\ Len(s) <= max

\* matches(/^[a-zA-Z0-9_]+$/)
matchesWord(s) == Len(s) >= 1 /\ \A i \in 1..Len(s) : s[i] \in WordChars

\* isInt({min}): /^[-+]?[0-9]+$/ and the value is at least min
isInt(s, min) ==
  LET signed == s # <<>> /\ Head(s) \in {"-", "+"}
      rest == IF signed THEN Tail(s) ELSE s
  IN /\ Len(rest) >= 1
     /\ \A i \in 1..Len(rest) : rest[i] \in Digits
     /\ parseInt(s).n >= min

RECURSIVE ltrim(_)
ltrim(s) == IF s # <<>> /\ Head(s) \in Whitespace THEN ltrim(Tail(s)) ELSE s

RECURSIVE rtrim(_)
rtrim(s) ==
  IF s # <<>> /\ s[Len(s)] \in Whitespace THEN rtrim(SubSeq(s, 1, Len(s) - 1)) ELSE s

trim(s) == rtrim(ltrim(s))

(***************************************************************************)
(* Objects and request bodies.                                             *)
(***************************************************************************)
\* a request: the method, the :id path parameter (empty when the route has
\* none), the parsed JSON body and the query parameters (key/value pairs
\* like a body, none unless the request is a list request)
Request(method, id, body) ==
  [method |-> method, id |-> id, body |-> body, query |-> <<>>]

\* obj[k], undefined when obj has no own key k
Prop(obj, k) == IF k \in DOMAIN obj THEN obj[k] ELSE Undefined

\* Object.keys(body), in the order the keys were written
ObjectKeys(body) == [i \in 1..Len(body) |-> body[i].k]

HasKey(body, k) == \E i \in 1..Len(body) : body[i].k = k

\* body[k], undefined when the key is absent
Field(body, k) ==
  IF HasKey(body, k) THEN body[CHOOSE i \in 1..Len(body) : body[i].k = k].v
  ELSE Undefined

\* _.set(body, k, v): overwrite in place, or add the key at the end
SetField(body, k, v) ==
  IF HasKey(body, k)
  THEN [i \in 1..Len(body) |-> IF body[i].k = k THEN [k |-> k, v |-> v] ELSE body[i]]
  ELSE Append(body, [k |-> k, v |-> v])

\* { ...base, ...body }: the keys of base, overridden and extended by body
Spread(base, body) ==
  [k \in DOMAIN base \cup {body[i].k : i \in 1..Len(body)} |->
     IF HasKey(body, k) THEN Field(body, k) ELSE base[k]]

\* one entry of validationResult(req).array()
Err(msg, path) == [msg |-> msg, path |-> path, fields |-> <<>>]

\* a validator of a chain: no entry when it passes, one entry when it fails
Check(ok, msg, path) == IF ok THEN <<>> ELSE <<Err(msg, path)>>

\* the subsequence of s whose elements are not in the set allowed
RECURSIVE RejectAll(_, _)
RejectAll(s, allowed) ==
  IF s = <<>> THEN <<>>
  ELSE IF Head(s) \in allowed THEN RejectAll(Tail(s), allowed)
       ELSE <<Head(s)>> \o RejectAll(Tail(s), allowed)

\* a value in a condition: undefined, null, NaN, "" and 0 are falsy
Truthy(v) == (v.t = "str" /\ v.s # <<>>) \/ (v.t = "num" /\ v.n # 0)

\* the property names the records and the bodies use, as strings
KeyChars ==
  [id |-> <<"i", "d">>,
   username |-> <<"u", "s", "e", "r", "n", "a", "m", "e">>,
   displayName |-> <<"d", "i", "s", "p", "l", "a", "y", "N", "a", "m", "e">>,
   email |-> <<"e", "m", "a", "i", "l">>,
   age |-> <<"a", "g", "e">>]

\* user[name] for a property name given as a string value; undefined when
\* the record has no such property
PropNamed(obj, name) ==
  LET keys == {k \in DOMAIN obj : KeyChars[k] = name}
  IN IF keys = {} THEN Undefined ELSE obj[CHOOSE k \in keys : TRUE]

\* s.includes(sub)
includes(s, sub) ==
  \E i \in 0..(Len(s) - Len(sub)) : SubSeq(s, i + 1, i + Len(sub)) = sub

(***************************************************************************)
(* userValidationSchemas.                                                  *)
(***************************************************************************)
allowedFields == {"username", "displayName"}

\* the query chains without the two custom checks that pair filter and value
getUsersQuery_NoPairing(req) ==
  LET filter == Field(req.query, "filter")
      value == Field(req.query, "value")
  IN (IF filter.t = "undefined" THEN <<>>
      ELSE Check(toString(filter) \in {KeyChars.username, KeyChars.displayName},
                 "Filter must be either 'username' or 'displayName'", "filter"))
     \o (IF value.t = "undefined" THEN <<>>
         ELSE Check(value.t = "str", "Invalid value", "value")
              \o Check(isLength(toString(value), 1, 50),
                       "Value must be a string between 1 and 50 characters", "value"))

\* query("filter").optional().isIn(), query("value").optional().isString()
\* .isLength(), and the two custom checks that pair filter and value
getUsersQuery(req) ==
  LET filter == Field(req.query, "filter")
      value == Field(req.query, "value")
  IN (IF filter.t = "undefined" THEN <<>>
      ELSE Check(toString(filter) \in {KeyChars.username, KeyChars.displayName},
                 "Filter must be either 'username' or 'displayName'", "filter"))
     \o (IF value.t = "undefined" THEN <<>>
         ELSE Check(value.t = "str", "Invalid value", "value")
              \o Check(isLength(toString(value), 1, 50),
                       "Value must be a string between 1 and 50 characters", "value"))
     \o Check(~(Truthy(filter) /\ ~Truthy(value)),
              "Value is required when filter is provided", "filter")
     \o Check(~(Truthy(value) /\ ~Truthy(filter)),
              "Filter is required when value is provided", "value")

\* the uniqueness check with the id comparison inverted
checkUsernameUniqueness_SameId(users, value, req) ==
  LET userId == IF req.id # <<>> THEN parseInt(req.id) ELSE Null
      existingUser == \E i \in 1..Len(users) :
                         /\ StrictEq(Prop(users[i], "username"), value)
                         /\ StrictEq(users[i].id, userId)
  IN Check(~existingUser, "Username already exists", "username")

checkUsernameUniqueness(users, value, req) ==
  LET userId == IF req.id # <<>> THEN parseInt(req.id) ELSE Null
      existingUser == \E i \in 1..Len(users) :
                         /\ StrictEq(Prop(users[i], "username"), value)
                         /\ ~StrictEq(users[i].id, userId)
  IN Check(~existingUser, "Username already exists", "username")

\* the id check with min: 0
userIdParam_MinZero(req) == Check(isInt(req.id, 0), "ID must be a positive integer", "id")

\* param("id").isInt({ min: 1 })
userIdParam(req) == Check(isInt(req.id, 1), "ID must be a positive integer", "id")

\* the required username chain with a uniqueness check that does not
\* exclude the record the path id names
usernameRequired_NoSelfExclusion(users, req) ==
  LET value == Field(req.body, "username")
      s == toString(value)
  IN Check(~isEmpty(s), "Username is required", "username")
     \o Check(value.t = "str", "Username must be a string", "username")
     \o Check(isLength(s, 3, 20), "Username must be between 3 and 20 characters", "username")
     \o Check(matchesWord(s), "Username can only contain letters, numbers, and underscores", "username")
     \o checkUsernameUniqueness(users, value, Request("POST", <<>>, req.body))

\* body("username").notEmpty().isString().isLength().matches().custom()
usernameRequired(users, req) ==
  LET value == Field(req.body, "username")
      s == toString(value)
  IN Check(~isEmpty(s), "Username is required", "username")
     \o Check(value.t = "str", "Username must be a string", "username")
     \o Check(isLength(s, 3, 20), "Username must be between 3 and 20 characters", "username")
     \o Check(matchesWord(s), "Username can only contain letters, numbers, and underscores", "username")
     \o checkUsernameUniqueness(users, value, req)

\* the optional username chain without its matches() check
usernameOptional_NoPattern(users, req) ==
  LET value == Field(req.body, "username")
      s == toString(value)
  IN IF value.t = "undefined" THEN <<>>
     ELSE Check(value.t = "str", "Username must be a string", "username")
          \o Check(isLength(s, 3, 20), "Username must be between 3 and 20 characters", "username")
          \o (IF Truthy(value) THEN checkUsernameUniqueness(users, value, req) ELSE <<>>)

\* body("username").optional().isString().isLength().matches().custom()
usernameOptional(users, req) ==
  LET value == Field(req.body, "username")
      s == toString(value)
  IN IF value.t = "undefined" THEN <<>>
     ELSE Check(value.t = "str", "Username must be a string", "username")
          \o Check(isLength(s, 3, 20), "Username must be between 3 and 20 characters", "username")
          \o Check(matchesWord(s), "Username can only contain letters, numbers, and underscores", "username")
          \o (IF Truthy(value) THEN checkUsernameUniqueness(users, value, req) ELSE <<>>)

\* body("displayName").notEmpty().isString().isLength(): the checks, which
\* run on the value as submitted
displayNameRequired(req) ==
  LET value == Field(req.body, "displayName")
      s == toString(value)
  IN Check(~isEmpty(s), "Display name is required", "displayName")
     \o Check(value.t = "str", "Display name must be a string", "displayName")
     \o Check(isLength(s, 2, 50), "Display name must be between 2 and 50 characters", "displayName")

\* body("displayName").optional().isString().isLength()
displayNameOptional(req) ==
  LET value == Field(req.body, "displayName")
      s == toString(value)
  IN IF value.t = "undefined" THEN <<>>
     ELSE Check(value.t = "str", "Display name must be a string", "displayName")
          \o Check(isLength(s, 2, 50), "Display name must be between 2 and 50 characters", "displayName")

\* the displayName chain without its trim
displayNameTrim_Missing(body, optional) == body

\* .trim() at the end of the displayName chain: the sanitized value is
\* written back to req.body when it differs from the value held there
displayNameTrim(body, optional) ==
  LET value == Field(body, "displayName")
      newValue == Str(trim(toString(value)))
  IN IF optional /\ value.t = "undefined" THEN body
     ELSE IF newValue # value THEN SetField(body, "displayName", newValue)
     ELSE body

\* the whitelist check reporting only the first offending key
fieldsWhitelist_FirstOnly(body) ==
  LET invalidFields == RejectAll(ObjectKeys(body), allowedFields)
  IN IF Len(invalidFields) > 0
     THEN <<[msg |-> "Invalid fields: %s. Only username and displayName are allowed.",
             path |-> "", fields |-> <<Head(invalidFields)>>]>>
     ELSE <<>>

\* the whitelist check with id among the allowed fields
fieldsWhitelist_AllowsId(body) ==
  LET invalidFields == RejectAll(ObjectKeys(body), allowedFields \cup {"id"})
  IN IF Len(invalidFields) > 0
     THEN <<[msg |-> "Invalid fields: %s. Only username and displayName are allowed.",
             path |-> "", fields |-> invalidFields]>>
     ELSE <<>>

\* body().custom(...) of createUser and updateUser
fieldsWhitelist(body) ==
  LET invalidFields == RejectAll(ObjectKeys(body), allowedFields)
  IN IF Len(invalidFields) > 0
     THEN <<[msg |-> "Invalid fields: %s. Only username and displayName are allowed.",
             path |-> "", fields |-> invalidFields]>>
     ELSE <<>>

\* the partial-update body check without the test for an empty body
fieldsWhitelistAtLeastOne_NoEmptyTest(body) ==
  LET invalidFields == RejectAll(ObjectKeys(body), allowedFields)
  IN IF Len(invalidFields) > 0
     THEN <<[msg |-> "Invalid fields: %s. Only username and displayName are allowed.",
             path |-> "", fields |-> invalidFields]>>
     ELSE <<>>

\* body().custom(...) of partialUpdateUser
fieldsWhitelistAtLeastOne(body) ==
  LET invalidFields == RejectAll(ObjectKeys(body), allowedFields)
  IN IF Len(invalidFields) > 0
     THEN <<[msg |-> "Invalid fields: %s. Only username and displayName are allowed.",
             path |-> "", fields |-> invalidFields]>>
     ELSE IF Len(body) = 0
     THEN <<Err("At least one field (username or displayName) must be provided for update", "")>>
     ELSE <<>>

\* the chains of the create route with each chain run only when the ones
\* before it collected no error
createUser_StopsAtFirstFailure(users, req) ==
  LET body == displayNameTrim(req.body, FALSE)
      first == usernameRequired(users, req)
      second == IF first = <<>> THEN displayNameRequired(req) ELSE <<>>
      third == IF first \o second = <<>> THEN fieldsWhitelist(body) ELSE <<>>
  IN [errors |-> first \o second \o third, body |-> body]

\* the chains of a route, run in order: the collected errors and the
\* request body as the sanitizers leave it
createUser(users, req) ==
  LET body == displayNameTrim(req.body, FALSE)
  IN [errors |-> usernameRequired(users, req) \o displayNameRequired(req)
                   \o fieldsWhitelist(body),
      body |-> body]

updateUser(users, req) ==
  LET body == displayNameTrim(req.body, FALSE)
  IN [errors |-> usernameRequired(users, req) \o displayNameRequired(req)
                   \o fieldsWhitelist(body),
      body |-> body]

partialUpdateUser(users, req) ==
  LET body == displayNameTrim(req.body, TRUE)
  IN [errors |-> usernameOptional(users, req) \o displayNameOptional(req)
                   \o fieldsWhitelistAtLeastOne(body),
      body |-> body]

(***************************************************************************)
(* Responses and middleware.  A response is [status, error, details, user, *)
(* list]: error and details are the fields of the body of a validation     *)
(* failure, user the set holding the record the response body carries      *)
(* (empty when it carries none), list the array a list request is          *)
(* answered with.  A middleware yields the set res holding the response    *)
(* it sent (empty when it sent none) and next, whether it called next().   *)
(***************************************************************************)
Response(status, details, user) ==
  [status |-> status, error |-> "", details |-> details, user |-> user, list |-> <<>>]

\* res.status(400).json({ error: "Validation failed", details: errors.array() })
ValidationFailed(errors) ==
  [Response(400, errors, {}) EXCEPT !.error = "Validation failed"]

\* res.send(users) of the list route
sendList(users) == [Response(200, <<>>, {}) EXCEPT !.list = users]

sendStatus(status) == Response(status, <<>>, {})

\* the response the client receives: the first one a middleware sent
FirstSent(sent) ==
  LET some == {i \in 1..Len(sent) : sent[i] # {}}
      first == CHOOSE i \in some : \A j \in some : i <= j
  IN CHOOSE r \in sent[first] : TRUE

\* a middleware that was not reached
Skipped == [next |-> FALSE, res |-> {}, findUserIndex |-> 0]

\* the gate without the return after its 400: it responds and calls next()
handleValidationErrors_NoReturn(errors) ==
  IF errors # <<>>
  THEN [next |-> TRUE, res |-> {ValidationFailed(errors)}]
  ELSE [next |-> TRUE, res |-> {}]

handleValidationErrors(errors) ==
  IF errors # <<>>
  THEN [next |-> FALSE, res |-> {ValidationFailed(errors)}]
  ELSE [next |-> TRUE, res |-> {}]

\* mockedUsers.findIndex((user) => user.id === parsedId), 1-based; 0 when
\* no record matches
findIndex(users, parsedId) ==
  LET hits == {i \in 1..Len(users) : StrictEq(users[i].id, parsedId)}
  IN IF hits = {} THEN 0 ELSE CHOOSE i \in hits : \A j \in hits : i <= j

\* the lookup answering 400 for a record that is not found
resolvedFindUserMiddleware_Status400(users, req) ==
  LET parsedId == parseInt(req.id)
      findUserIndex == findIndex(users, parsedId)
  IN IF findUserIndex = 0
     THEN [next |-> FALSE, res |-> {sendStatus(400)}, findUserIndex |-> 0]
     ELSE [next |-> TRUE, res |-> {}, findUserIndex |-> findUserIndex]

resolvedFindUserMiddleware(users, req) ==
  LET parsedId == parseInt(req.id)
      findUserIndex == findIndex(users, parsedId)
  IN IF findUserIndex = 0
     THEN [next |-> FALSE, res |-> {sendStatus(404)}, findUserIndex |-> 0]
     ELSE [next |-> TRUE, res |-> {}, findUserIndex |-> findUserIndex]

(***************************************************************************)
(* Route handlers: the store they leave and the response they send.        *)
(***************************************************************************)
NotRun(users) == [users |-> users, res |-> {}]

\* the filter with startsWith in place of includes
filterUsers_StartsWith(users, filter, value) ==
  SelectSeq(users, LAMBDA user :
    LET field == PropNamed(user, toString(filter))
        sub == toString(value)
    IN field.t = "str" /\ Len(sub) <= Len(field.s)
         /\ SubSeq(field.s, 1, Len(sub)) = sub)

\* mockedUsers.filter((user) => user[filter]?.includes(value))
filterUsers(users, filter, value) ==
  SelectSeq(users, LAMBDA user :
    LET field == PropNamed(user, toString(filter))
    IN field.t = "str" /\ includes(field.s, toString(value)))

\* the list handler: every record unless both filter and value are given
listHandler(users, query) ==
  LET filter == Field(query, "filter")
      value == Field(query, "value")
  IN IF ~Truthy(filter) /\ ~Truthy(value) THEN [users |-> users, res |-> {sendList(users)}]
     ELSE IF Truthy(filter) /\ Truthy(value)
     THEN [users |-> users, res |-> {sendList(filterUsers(users, filter, value))}]
     ELSE [users |-> users, res |-> {sendList(users)}]

\* (req, res) => res.send(mockedUsers[req.findUserIndex])
getHandler(users, findUserIndex) ==
  [users |-> users, res |-> {Response(200, <<>>, {users[findUserIndex]})}]

\* the full update storing { ...body }, without the id
putHandler_DropsId(users, findUserIndex, body) ==
  [users |-> [users EXCEPT ![findUserIndex] = Spread(<<>>, body)],
   res |-> {sendStatus(200)}]

\* mockedUsers[findUserIndex] = { id: mockedUsers[findUserIndex].id, ...body }
putHandler(users, findUserIndex, body) ==
  [users |-> [users EXCEPT ![findUserIndex] =
                 Spread([id |-> users[findUserIndex].id], body)],
   res |-> {sendStatus(200)}]

\* the partial update replacing the record as the full update does
patchHandler_Replaces(users, findUserIndex, body) ==
  [users |-> [users EXCEPT ![findUserIndex] =
                 Spread([id |-> users[findUserIndex].id], body)],
   res |-> {sendStatus(200)}]

\* mockedUsers[findUserIndex] = { ...mockedUsers[findUserIndex], ...body }
patchHandler(users, findUserIndex, body) ==
  [users |-> [users EXCEPT ![findUserIndex] = Spread(users[findUserIndex], body)],
   res |-> {sendStatus(200)}]

\* splice(findUserIndex, 0): nothing is removed
deleteHandler_RemovesNothing(users, findUserIndex) ==
  [users |-> users, res |-> {sendStatus(200)}]

\* splice(findUserIndex): the record and every record after it are removed
deleteHandler_SpliceToEnd(users, findUserIndex) ==
  [users |-> SubSeq(users, 1, findUserIndex - 1), res |-> {sendStatus(200)}]

\* mockedUsers.splice(findUserIndex, 1)
deleteHandler(users, findUserIndex) ==
  [users |-> SubSeq(users, 1, findUserIndex - 1)
               \o SubSeq(users, findUserIndex + 1, Len(users)),
   res |-> {sendStatus(200)}]

\* the create handler taking mockedUsers.length + 1 as the new id
postHandler_LengthPlusOne(users, body) ==
  IF Len(users) = 0
  THEN [users |-> users, res |-> {sendStatus(500)}]
  ELSE LET newUsers == Spread([id |-> Num(Len(users) + 1)], body)
       IN [users |-> Append(users, newUsers),
           res |-> {Response(201, <<>>, {newUsers})}]

\* the create handler taking the new id from a counter set when the store
\* was constructed and never advanced
postHandler_IdFromSeed(users, body) ==
  IF Len(users) = 0
  THEN [users |-> users, res |-> {sendStatus(500)}]
  ELSE LET newUsers == Spread([id |-> Num(5 + 1)], body)
       IN [users |-> Append(users, newUsers),
           res |-> {Response(201, <<>>, {newUsers})}]

\* id: mockedUsers[mockedUsers.length - 1].id + 1: reading .id of
\* undefined throws when the store is empty, and Express answers 500
postHandler(users, body) ==
  IF Len(users) = 0
  THEN [users |-> users, res |-> {sendStatus(500)}]
  ELSE LET newUsers == Spread([id |-> Num(users[Len(users)].id.n + 1)], body)
       IN [users |-> Append(users, newUsers),
           res |-> {Response(201, <<>>, {newUsers})}]

(***************************************************************************)
(* The routes of createTestApp: validation chains, gate, lookup, handler.  *)
(***************************************************************************)
\* the middleware of a route that ran, in order: the validation chains and
\* the gate always, the lookup and the handler when the one before called
\* next()
Stages(g, f) ==
  <<"validate", "gate">>
    \o (IF g.next THEN <<"lookup">> ELSE <<>>)
    \o (IF f.next THEN <<"handler">> ELSE <<>>)

ListRoute(users, req) ==
  LET g == handleValidationErrors(getUsersQuery(req))
      h == IF g.next THEN listHandler(users, req.query) ELSE NotRun(users)
  IN [users |-> h.users, res |-> FirstSent(<<g.res, h.res>>),
      ran |-> <<"validate", "gate">> \o (IF g.next THEN <<"handler">> ELSE <<>>)]

GetRoute(users, req) ==
  LET g == handleValidationErrors(userIdParam(req))
      f == IF g.next THEN resolvedFindUserMiddleware(users, req) ELSE Skipped
      h == IF f.next THEN getHandler(users, f.findUserIndex) ELSE NotRun(users)
  IN [users |-> h.users, res |-> FirstSent(<<g.res, f.res, h.res>>),
      ran |-> Stages(g, f)]

\* the full-update route with the lookup placed before the validation
PutRoute_LookupFirst(users, req) ==
  LET v == updateUser(users, req)
      f == resolvedFindUserMiddleware(users, req)
      g == IF f.next THEN handleValidationErrors(userIdParam(req) \o v.errors)
           ELSE [next |-> FALSE, res |-> {}]
      h == IF g.next THEN putHandler(users, f.findUserIndex, v.body) ELSE NotRun(users)
  IN [users |-> h.users, res |-> FirstSent(<<f.res, g.res, h.res>>),
      ran |-> <<"lookup">>
                \o (IF f.next THEN <<"validate", "gate">> ELSE <<>>)
                \o (IF g.next THEN <<"handler">> ELSE <<>>)]

PutRoute(users, req) ==
  LET v == updateUser(users, req)
      g == handleValidationErrors(userIdParam(req) \o v.errors)
      f == IF g.next THEN resolvedFindUserMiddleware(users, req) ELSE Skipped
      h == IF f.next THEN putHandler(users, f.findUserIndex, v.body) ELSE NotRun(users)
  IN [users |-> h.users, res |-> FirstSent(<<g.res, f.res, h.res>>),
      ran |-> Stages(g, f)]

PatchRoute(users, req) ==
  LET v == partialUpdateUser(users, req)
      g == handleValidationErrors(userIdParam(req) \o v.errors)
      f == IF g.next THEN resolvedFindUserMiddleware(users, req) ELSE Skipped
      h == IF f.next THEN patchHandler(users, f.findUserIndex, v.body) ELSE NotRun(users)
  IN [users |-> h.users, res |-> FirstSent(<<g.res, f.res, h.res>>),
      ran |-> Stages(g, f)]

DeleteRoute(users, req) ==
  LET g == handleValidationErrors(userIdParam(req))
      f == IF g.next THEN resolvedFindUserMiddleware(users, req) ELSE Skipped
      h == IF f.next THEN deleteHandler(users, f.findUserIndex) ELSE NotRun(users)
  IN [users |-> h.users, res |-> FirstSent(<<g.res, f.res, h.res>>),
      ran |-> Stages(g, f)]

\* the routes without :id have no lookup: the gate calls the handler
PostRoute(users, req) ==
  LET v == createUser(users, req)
      g == handleValidationErrors(v.errors)
      h == IF g.next THEN postHandler(users, v.body) ELSE NotRun(users)
  IN [users |-> h.users, res |-> FirstSent(<<g.res, h.res>>),
      ran |-> <<"validate", "gate">> \o (IF g.next THEN <<"handler">> ELSE <<>>)]

(***************************************************************************)
(* The seed data and the requests the clients send.                        *)
(***************************************************************************)
User(id, username, displayName) ==
  [id |-> Num(id), username |-> Str(username), displayName |-> Str(displayName)]

johndoe == <<"j", "o", "h", "n", "d", "o", "e">>

janedoe == <<"j", "a", "n", "e", "d", "o", "e">>

seedUsers ==
  << User(1, johndoe, <<"J", "o", "h", "n", " ", "D", "o", "e">>),
     User(2, janedoe, <<"J", "a", "n", "e", " ", "D", "o", "e">>),
     User(3, <<"s", "u", "n", "d", "a", "r", "2", "0", "2", "5">>, <<"S", "u", "n", "d", "a", "r", "e", "s", "h">>),
     User(4, <<"c", "o", "o", "l", "c", "o", "d", "e", "r">>, <<"C", "o", "d", "e", " ", "M", "a", "s", "t", "e", "r">>),
     User(5, <<"t", "e", "c", "h", "q", "u", "e", "e", "n">>, <<"T", "e", "c", "h", " ", "Q", "u", "e", "e", "n">>) >>

\* the string of n characters c
Repeat(c, n) == [i \in 1..n |-> c]

\* usernames a client submits: an unused valid one of minimal length, a
\* seed username, one too short, one too long, one with a character outside
\* the pattern, and a number
newname == <<"a", "b", "c">>

UsernameInputs ==
  {Str(newname), Str(johndoe), Str(<<"a", "b">>), Str(Repeat("a", 21)),
   Str(<<"a", "-", "b">>), Num(12345)}

\* display names a client submits: minimal length, padded with whitespace,
\* one character between two spaces, too short
DisplayNameInputs ==
  {Str(<<"A", "B">>), Str(<<" ", " ", "A", "l", " ">>), Str(<<" ", "A", " ">>), Str(<<"X">>)}

KV(k, v) == [k |-> k, v |-> v]

\* request bodies: empty, one field, both fields, and bodies with keys
\* outside the whitelist, one of them the key id
Bodies ==
  {<<>>}
  \cup {<<KV("username", Str(newname))>>, <<KV("displayName", Str(<<"A", "B">>))>>}
  \cup {<<KV("username", u), KV("displayName", Str(<<"A", "B">>))>> : u \in UsernameInputs}
  \cup {<<KV("username", Str(newname)), KV("displayName", d)>> : d \in DisplayNameInputs}
  \cup {<<KV("id", Num(1)), KV("username", Str(newname)), KV("displayName", Str(<<"A", "B">>))>>,
        <<KV("age", Num(30)), KV("username", Str(johndoe)),
          KV("displayName", Str(<<"A", "B">>)), KV("email", Str(<<"e", "@", "x">>))>>}

\* path ids: the first and the last record of the seed, the first id a
\* create assigns, zero, a negative id and a non-numeric id
PathIds == {<<"1">>, <<"5">>, <<"6">>, <<"0">>, <<"-", "1">>, <<"a", "b", "c">>}

\* query strings of the list request: none, filter and value (one match,
\* two matches, a match but for the case, a value too long), one of the two
\* alone, an empty parameter, and a filter outside the two fields
Queries ==
  {<<>>,
   <<KV("filter", Str(KeyChars.username)), KV("value", Str(<<"j", "o", "h", "n">>))>>,
   <<KV("filter", Str(KeyChars.displayName)), KV("value", Str(<<"D", "o", "e">>))>>,
   <<KV("filter", Str(KeyChars.displayName)), KV("value", Str(<<"d", "o", "e">>))>>,
   <<KV("filter", Str(KeyChars.username)), KV("value", Str(Repeat("a", 51)))>>,
   <<KV("filter", Str(KeyChars.username))>>,
   <<KV("value", Str(<<"j", "o", "h", "n">>))>>,
   <<KV("filter", Str(<<>>)), KV("value", Str(<<"j", "o", "h", "n">>))>>,
   <<KV("filter", Str(KeyChars.username)), KV("value", Str(<<>>))>>,
   <<KV("filter", Str(KeyChars.email)), KV("value", Str(<<"j", "o", "h", "n">>))>>}

(***************************************************************************)
(* The state machine: one action per route, a request handled to its       *)
(* response in one step (requests are processed one at a time).            *)
(***************************************************************************)
Init ==
  /\ mockedUsers = seedUsers
  /\ lastReq = Request("NONE", <<>>, <<>>)
  /\ lastRes = sendStatus(0)
  /\ ran = <<>>
  /\ deleted = {}
  /\ nreq = 0
  /\ pending = <<>>

\* the store and the response of a route become the new state
Handled(req, out) ==
  /\ nreq < MaxRequests
  /\ nreq' = nreq + 1
  /\ lastReq' = req
  /\ lastRes' = out.res
  /\ ran' = out.ran
  /\ mockedUsers' = out.users
  /\ UNCHANGED pending

\* GET /api/users
ListUsers(query) ==
  LET req == [Request("GET", <<>>, <<>>) EXCEPT !.query = query]
  IN /\ Handled(req, ListRoute(mockedUsers, req))
     /\ UNCHANGED deleted

\* GET /api/users/:id
GetUser(id) ==
  LET req == Request("GET", id, <<>>)
  IN /\ Handled(req, GetRoute(mockedUsers, req))
     /\ UNCHANGED deleted

\* POST /api/users
CreateUser(body) ==
  LET req == Request("POST", <<>>, body)
  IN /\ Handled(req, PostRoute(mockedUsers, req))
     /\ UNCHANGED deleted

\* PUT /api/users/:id
PutUser(id, body) ==
  LET req == Request("PUT", id, body)
  IN /\ Handled(req, PutRoute(mockedUsers, req))
     /\ UNCHANGED deleted

\* PATCH /api/users/:id
PatchUser(id, body) ==
  LET req == Request("PATCH", id, body)
  IN /\ Handled(req, PatchRoute(mockedUsers, req))
     /\ UNCHANGED deleted

\* DELETE /api/users/:id; deleted records the ids of the records removed
DeleteUser(id) ==
  LET req == Request("DELETE", id, <<>>)
      out == DeleteRoute(mockedUsers, req)
  IN /\ Handled(req, out)
     /\ deleted' = IF out.res.status = 200
                   THEN deleted \cup {parseInt(id).n}
                   ELSE deleted

Next ==
  \/ \E query \in Queries : ListUsers(query)
  \/ \E id \in PathIds : GetUser(id)
  \/ \E body \in Bodies : CreateUser(body)
  \/ \E id \in PathIds, body \in Bodies : PutUser(id, body)
  \/ \E id \in PathIds, body \in Bodies : PatchUser(id, body)
  \/ \E id \in PathIds : DeleteUser(id)

Spec == Init /\ [][Next]_vars

(***************************************************************************)
(* Create requests in flight together.  The create route is a list of      *)
(* middleware, each a callback of its own: the validation chains (which    *)
(* express-validator runs asynchronously before it calls next()), the      *)
(* gate, and the handler.  A request in flight holds its position in that  *)
(* list; the callbacks of different requests run in any order, each one    *)
(* to completion.                                                          *)
(***************************************************************************)
otherName == <<"x", "y", "z">>

\* create bodies sent together: two unused usernames and a seed username
ConcurrentBodies ==
  {<<KV("username", Str(u)), KV("displayName", Str(<<"A", "B">>))>> :
     u \in {newname, otherName, johndoe}}

\* a client sends POST /api/users
SendCreate(body) ==
  /\ Len(pending) < MaxInFlight
  /\ pending' = Append(pending, [sent |-> body, body |-> body, pc |-> "validate",
                                 errors |-> <<>>, res |-> sendStatus(0)])
  /\ UNCHANGED <<mockedUsers, lastReq, lastRes, ran, deleted, nreq>>

\* userValidationSchemas.createUser(mockedUsers): the chains of request i
\* run against the store as it is now
RunValidation(i) ==
  /\ pending[i].pc = "validate"
  /\ LET v == createUser(mockedUsers, Request("POST", <<>>, pending[i].body))
     IN pending' = [pending EXCEPT ![i].body = v.body, ![i].errors = v.errors,
                                   ![i].pc = "gate"]
  /\ UNCHANGED <<mockedUsers, lastReq, lastRes, ran, deleted, nreq>>

\* handleValidationErrors of request i
RunGate(i) ==
  /\ pending[i].pc = "gate"
  /\ LET g == handleValidationErrors(pending[i].errors)
     IN pending' = [pending EXCEPT ![i].pc = IF g.next THEN "handler" ELSE "done",
                                   ![i].res = IF g.next THEN @ ELSE FirstSent(<<g.res>>)]
  /\ UNCHANGED <<mockedUsers, lastReq, lastRes, ran, deleted, nreq>>

\* the create handler of request i, on the store as it is now
RunHandler(i) ==
  /\ pending[i].pc = "handler"
  /\ LET h == postHandler(mockedUsers, pending[i].body)
     IN /\ mockedUsers' = h.users
        /\ pending' = [pending EXCEPT ![i].pc = "done", ![i].res = FirstSent(<<h.res>>)]
  /\ UNCHANGED <<lastReq, lastRes, ran, deleted, nreq>>

NextConcurrent ==
  \/ \E body \in ConcurrentBodies : SendCreate(body)
  \/ \E i \in 1..Len(pending) : RunValidation(i)
  \/ \E i \in 1..Len(pending) : RunGate(i)
  \/ \E i \in 1..Len(pending) : RunHandler(i)

SpecConcurrent == Init /\ [][NextConcurrent]_vars

(***************************************************************************)
(* Emptying the store: deletes of the five seed ids and valid creates,     *)
(* one request at a time.                                                  *)
(***************************************************************************)
DrainIds == {<<"1">>, <<"2">>, <<"3">>, <<"4">>, <<"5">>}

DrainBody == <<KV("username", Str(newname)), KV("displayName", Str(<<"A", "B">>))>>

\* the store and the response of a route become the new state
Drained(req, out) ==
  /\ nreq < MaxDrain
  /\ nreq' = nreq + 1
  /\ lastReq' = req
  /\ lastRes' = out.res
  /\ ran' = out.ran
  /\ mockedUsers' = out.users
  /\ UNCHANGED pending

\* DELETE /api/users/:id
DrainDelete(id) ==
  LET req == Request("DELETE", id, <<>>)
      out == DeleteRoute(mockedUsers, req)
  IN /\ Drained(req, out)
     /\ deleted' = IF out.res.status = 200
                   THEN deleted \cup {parseInt(id).n}
                   ELSE deleted

\* POST /api/users
DrainCreate ==
  LET req == Request("POST", <<>>, DrainBody)
  IN /\ Drained(req, PostRoute(mockedUsers, req))
     /\ UNCHANGED deleted

NextDrain ==
  \/ \E id \in DrainIds : DrainDelete(id)
  \/ DrainCreate

SpecDrain == Init /\ [][NextDrain]_vars

(***************************************************************************)
(* The standalone server of src/index.js: the same store and handlers,     *)
(* query checks of its own on the list route, the schema                   *)
(* validateUserCreationSchema on the create route, and no validation of    *)
(* the path id or of the body on the id routes.                            *)
(***************************************************************************)
\* a function object, such as a method inherited from Object.prototype
Function == [t |-> "fn", s |-> <<>>, n |-> 0]

inheritedName == <<"t", "o", "S", "t", "r", "i", "n", "g">>

\* user[filter] in the list handler: an own property, or toString of
\* Object.prototype, or undefined
index_PropNamed(obj, name) ==
  IF PropNamed(obj, name) # Undefined THEN PropNamed(obj, name)
  ELSE IF name = inheritedName THEN Function
  ELSE Undefined

\* query("filter") and query("value"): optional().isString().notEmpty().isLength()
index_query(req) ==
  LET filter == Field(req.query, "filter")
      value == Field(req.query, "value")
  IN (IF filter.t = "undefined" THEN <<>>
      ELSE Check(filter.t = "str", "Invalid value", "filter")
           \o Check(~isEmpty(toString(filter)), "The username must not be empty", "filter")
           \o Check(isLength(toString(filter), 5, 15),
                    "The Username character must be 5-15 characters", "filter"))
     \o (IF value.t = "undefined" THEN <<>>
         ELSE Check(value.t = "str", "Invalid value", "value")
              \o Check(~isEmpty(toString(value)), "The username value must not be empty", "value")
              \o Check(isLength(toString(value), 5, 15),
                       "The Username character must be 5-15 characters", "value"))

\* user[filter]?.includes(value) throws a TypeError when user[filter] is
\* neither undefined nor null and has no method includes
index_includesThrows(users, filter) ==
  \E i \in 1..Len(users) :
    index_PropNamed(users[i], toString(filter)).t \notin {"str", "undefined", "null"}

\* the handler of GET /api/users; an exception thrown by the filter
\* callback is answered 500 by Express
index_listHandler(users, req) ==
  LET filter == Field(req.query, "filter")
      value == Field(req.query, "value")
      errors == index_query(req)
  IN IF errors # <<>> THEN Response(400, errors, {})
     ELSE IF ~Truthy(filter) /\ ~Truthy(value) THEN sendList(users)
     ELSE IF Truthy(filter) /\ Truthy(value)
     THEN IF index_includesThrows(users, filter) THEN sendStatus(500)
          ELSE sendList(SelectSeq(users, LAMBDA user :
                 LET field == index_PropNamed(user, toString(filter))
                 IN field.t = "str" /\ includes(field.s, toString(value))))
     ELSE sendList(users)

\* resolvedFindUserMiddleware of index.js
index_resolvedFindUserMiddleware(users, req) ==
  LET parsedId == parseInt(req.id)
      findUserIndex == findIndex(users, parsedId)
  IN IF parsedId.t = "nan"
     THEN [next |-> FALSE, res |-> {[sendStatus(400) EXCEPT !.error = "Invalid id"]},
           findUserIndex |-> 0]
     ELSE IF findUserIndex = 0
     THEN [next |-> FALSE, res |-> {sendStatus(404)}, findUserIndex |-> 0]
     ELSE [next |-> TRUE, res |-> {}, findUserIndex |-> findUserIndex]

\* checkSchema(validateUserCreationSchema): notEmpty and isLength on the
\* username and on the displayName of the body
validateUserCreationSchema(req) ==
  LET username == toString(Field(req.body, "username"))
      displayName == toString(Field(req.body, "displayName"))
  IN Check(~isEmpty(username), "The username should not be empty", "username")
     \o Check(isLength(username, 5, 15), "The username must be 5-15 characters", "username")
     \o Check(~isEmpty(displayName), "The displayname should not be empty", "displayName")
     \o Check(isLength(displayName, 5, 32), "The displayname must be 5-15 characters", "displayName")

\* matchedData(req): the fields of the schema, with the values of the body
matchedData(req) ==
  <<KV("username", Field(req.body, "username")),
    KV("displayName", Field(req.body, "displayName"))>>

\* the id routes of index.js: the lookup, then the handler
index_IdRoute(users, req) ==
  LET f == index_resolvedFindUserMiddleware(users, req)
      h == IF ~f.next THEN NotRun(users)
           ELSE IF req.method = "GET" THEN getHandler(users, f.findUserIndex)
           ELSE IF req.method = "PUT" THEN putHandler(users, f.findUserIndex, req.body)
           ELSE IF req.method = "PATCH" THEN patchHandler(users, f.findUserIndex, req.body)
           ELSE deleteHandler(users, f.findUserIndex)
  IN [users |-> h.users, res |-> FirstSent(<<f.res, h.res>>)]

\* app.post of index.js
index_PostRoute(users, req) ==
  LET errors == validateUserCreationSchema(req)
      h == IF errors # <<>> THEN [users |-> users, res |-> {Response(400, errors, {})}]
           ELSE postHandler(users, matchedData(req))
  IN [users |-> h.users, res |-> FirstSent(<<h.res>>)]

\* create bodies: a seed username, and an unused username with display
\* names of 4, 5, 15, 16 and 33 characters
index_CreateBodies ==
  {<<>>,
   <<KV("username", Str(johndoe)), KV("displayName", Str(<<"J", "o", "h", "n", "n", "y">>))>>}
  \cup {<<KV("username", Str(Repeat("u", 5))), KV("displayName", Str(Repeat("d", n)))>> :
          n \in {4, 5, 15, 16, 33}}

\* update bodies: a number as username, a body with the key id, and a body
\* without username
index_UpdateBodies ==
  {<<KV("username", Num(12345))>>,
   <<KV("id", Num(99)), KV("username", Str(Repeat("u", 5))),
     KV("displayName", Str(Repeat("d", 5)))>>,
   <<KV("displayName", Str(Repeat("d", 5)))>>}

index_PathIds == {<<"1">>, <<"5">>, <<"9">>, <<"a", "b", "c">>}

\* query strings: none, the two fields with a value of a seed record, a
\* name every object inherits, a filter too short, and a filter alone
index_Queries ==
  {<<>>,
   <<KV("filter", Str(KeyChars.username)), KV("value", Str(johndoe))>>,
   <<KV("filter", Str(KeyChars.displayName)), KV("value", Str(Repeat("d", 5)))>>,
   <<KV("filter", Str(inheritedName)), KV("value", Str(johndoe))>>,
   <<KV("filter", Str(KeyChars.id)), KV("value", Str(johndoe))>>,
   <<KV("filter", Str(KeyChars.username))>>}

\* the store and the response of a route of index.js become the new state
index_Handled(req, out) ==
  /\ nreq < MaxRequests
  /\ nreq' = nreq + 1
  /\ lastReq' = req
  /\ lastRes' = out.res
  /\ mockedUsers' = out.users
  /\ UNCHANGED <<ran, deleted, pending>>

\* GET /api/users
index_List(query) ==
  LET req == [Request("GET", <<>>, <<>>) EXCEPT !.query = query]
  IN index_Handled(req, [users |-> mockedUsers, res |-> index_listHandler(mockedUsers, req)])

\* GET and DELETE /api/users/:id
index_GetOrDelete(method, id) ==
  LET req == Request(method, id, <<>>)
  IN index_Handled(req, index_IdRoute(mockedUsers, req))

\* PUT and PATCH /api/users/:id
index_Update(method, id, body) ==
  LET req == Request(method, id, body)
  IN index_Handled(req, index_IdRoute(mockedUsers, req))

\* POST /api/users
index_Create(body) ==
  LET req == Request("POST", <<>>, body)
  IN index_Handled(req, index_PostRoute(mockedUsers, req))

NextStandalone ==
  \/ \E query \in index_Queries : index_List(query)
  \/ \E method \in {"GET", "DELETE"}, id \in index_PathIds : index_GetOrDelete(method, id)
  \/ \E method \in {"PUT", "PATCH"}, id \in index_PathIds, body \in index_UpdateBodies :
       index_Update(method, id, body)
  \/ \E body \in index_CreateBodies : index_Create(body)

SpecStandalone == Init /\ [][NextStandalone]_vars

(***************************************************************************)
(* Properties.                                                             *)
(***************************************************************************)
UsernameExists == "Username already exists"

HasMsg(res, msg) == \E i \in 1..Len(res.details) : res.details[i].msg = msg

\* the largest id held by a non-empty store
MaxIdOf(users) ==
  CHOOSE m \in {users[i].id.n : i \in 1..Len(users)} :
    \A i \in 1..Len(users) : users[i].id.n <= m

\* C1: no two records of the store have the same username
C1_UsernamesUnique ==
  \A i, j \in 1..Len(mockedUsers) :
    i # j => Prop(mockedUsers[i], "username") # Prop(mockedUsers[j], "username")

\* a create took a username that an update had freed
C1_Witness ==
  /\ lastReq.method = "POST" /\ lastRes.status = 201
  /\ \E i \in 1..Len(mockedUsers) :
       mockedUsers[i].id = Num(6) /\ mockedUsers[i].username = Str(johndoe)

\* C2: a create that passes validation on a non-empty store responds 201
\* with the new record, whose id is 1 + the largest id held before
C2_CreateAssignsMaxPlusOne ==
  [][(lastReq'.method = "POST" /\ lastRes'.status # 400 /\ Len(mockedUsers) > 0)
       => /\ lastRes'.status = 201
          /\ \E r \in lastRes'.user :
               /\ lastRes'.user = {r}
               /\ r.id = Num(1 + MaxIdOf(mockedUsers))
               /\ mockedUsers' = Append(mockedUsers, r)]_vars

\* a create succeeded after a record other than the last was deleted
C2_Witness ==
  /\ lastReq.method = "POST" /\ lastRes.status = 201
  /\ deleted # {}
  /\ \E r \in lastRes.user : r.id.n \notin deleted

\* C3: a create never assigns an id that a deleted record had
C3_NoIdReuse ==
  (lastReq.method = "POST" /\ lastRes.status = 201)
    => \A r \in lastRes.user : r.id.n \notin deleted

\* C4: a create, PUT, PATCH or delete answered 400 or 404 leaves the store
\* as it was
C4_ErrorLeavesStore ==
  [][(lastReq'.method \in {"POST", "PUT", "PATCH", "DELETE"}
        /\ lastRes'.status \in {400, 404})
       => mockedUsers' = mockedUsers]_vars

\* an update of an existing record was rejected after earlier mutations
C4_Witness ==
  /\ lastReq.method \in {"PUT", "PATCH"}
  /\ lastRes.status = 400
  /\ findIndex(mockedUsers, parseInt(lastReq.id)) # 0
  /\ mockedUsers # seedUsers

\* the validation failures of a PUT or PATCH request
UpdateErrors(users, req) ==
  userIdParam(req)
    \o (IF req.method = "PUT" THEN updateUser(users, req).errors
        ELSE partialUpdateUser(users, req).errors)

\* C5 as stated: a PUT or PATCH whose path id matches no record leaves the
\* store unchanged and responds 404, whatever the body
C5_Original ==
  [][(lastReq'.method \in {"PUT", "PATCH"}
        /\ findIndex(mockedUsers, parseInt(lastReq'.id)) = 0)
       => (mockedUsers' = mockedUsers /\ lastRes'.status = 404)]_vars

\* C5 amended: a PUT or PATCH whose path id matches no record leaves the
\* store unchanged; it responds 404 when the request passes validation and
\* 400 with the validation failures when it does not
C5_MissingIdUpdate ==
  [][(lastReq'.method \in {"PUT", "PATCH"}
        /\ findIndex(mockedUsers, parseInt(lastReq'.id)) = 0)
       => LET errors == UpdateErrors(mockedUsers, lastReq')
          IN /\ mockedUsers' = mockedUsers
             /\ errors = <<>> => lastRes' = sendStatus(404)
             /\ errors # <<>> => lastRes' = ValidationFailed(errors)]_vars

\* a valid update of an id that was deleted got 404
C5_Witness ==
  /\ lastReq.method \in {"PUT", "PATCH"}
  /\ lastRes.status = 404
  /\ parseInt(lastReq.id).n \in deleted

\* C6: a delete of id N that follows a successful delete of id N responds
\* 404 and leaves the store unchanged
C6_RepeatedDelete ==
  [][(lastReq.method = "DELETE" /\ lastRes.status = 200
        /\ lastReq'.method = "DELETE"
        /\ parseInt(lastReq'.id) = parseInt(lastReq.id))
       => (lastRes'.status = 404 /\ mockedUsers' = mockedUsers)]_vars

\* a delete of an id deleted before was answered 404
C6_Witness ==
  /\ lastReq.method = "DELETE"
  /\ lastRes.status = 404
  /\ parseInt(lastReq.id).n \in deleted

\* the get-by-id that follows a successful create and asks for its id
GetAfterCreate ==
  /\ lastReq.method = "POST" /\ lastRes.status = 201
  /\ lastReq'.method = "GET"
  /\ \E r \in lastRes.user : lastReq'.id = toString(r.id)

\* C7 as stated: the get-by-id after a create returns the assigned id with
\* the username and the displayName exactly as submitted
C7_Original ==
  [][GetAfterCreate
       => /\ lastRes'.status = 200
          /\ \E r \in lastRes'.user :
               /\ lastRes.user = {r}
               /\ r.username = Field(lastReq.body, "username")
               /\ r.displayName = Field(lastReq.body, "displayName")]_vars

\* C7 amended: the get-by-id after a create returns the assigned id, the
\* username as submitted, and the displayName as submitted with its leading
\* and trailing whitespace stripped
C7_RoundTrip ==
  [][GetAfterCreate
       => /\ lastRes'.status = 200
          /\ \E r \in lastRes'.user :
               /\ lastRes'.user = {r}
               /\ DOMAIN r = {"id", "username", "displayName"}
               /\ lastRes.user = {r}
               /\ r.username = Field(lastReq.body, "username")
               /\ r.displayName = Str(trim(Field(lastReq.body, "displayName").s))]_vars

\* a get-by-id returned a created record whose displayName was submitted
\* with surrounding whitespace
C7_Witness ==
  /\ lastReq.method = "GET" /\ lastRes.status = 200
  /\ \E r \in lastRes.user :
       /\ r.id = Num(6)
       /\ r.displayName = Str(<<"A", "l">>)

\* the request submits the username of a stored record other than the one
\* its path id names
SubmitsTakenUsername(users, req) ==
  \E i \in 1..Len(users) :
    /\ HasKey(req.body, "username")
    /\ users[i].username = Field(req.body, "username")
    /\ (req.method = "POST" \/ users[i].id # parseInt(req.id))

\* C8: a create with the username of a stored record, and a PUT or PATCH
\* with the username of a stored record whose id is not the path id, gets
\* 400 with "Username already exists" and leaves the store unchanged
C8_DuplicateRejected ==
  [][(lastReq'.method \in {"POST", "PUT", "PATCH"}
        /\ SubmitsTakenUsername(mockedUsers, lastReq'))
       => /\ lastRes'.status = 400
          /\ HasMsg(lastRes', UsernameExists)
          /\ mockedUsers' = mockedUsers]_vars

\* an update was rejected for a username that another record took in an
\* earlier request
C8_Witness ==
  /\ lastReq.method \in {"PUT", "PATCH"}
  /\ lastRes.status = 400
  /\ HasMsg(lastRes, UsernameExists)
  /\ Field(lastReq.body, "username") = Str(newname)

\* the request is addressed to an existing record and submits that
\* record's current username
SubmitsOwnUsername(users, req) ==
  LET i == findIndex(users, parseInt(req.id))
  IN /\ i # 0
     /\ HasKey(req.body, "username")
     /\ Field(req.body, "username") = users[i].username

\* a string of 2 to 50 characters
ValidDisplayName(v) == v.t = "str" /\ Len(v.s) >= 2 /\ Len(v.s) <= 50

\* C9 as stated: a PUT with a valid displayName, or a PATCH, addressed to
\* an existing record and submitting its own username gets 200
C9_Original ==
  [][(/\ lastReq'.method \in {"PUT", "PATCH"}
      /\ SubmitsOwnUsername(mockedUsers, lastReq')
      /\ lastReq'.method = "PUT"
           => ValidDisplayName(Field(lastReq'.body, "displayName")))
       => lastRes'.status = 200]_vars

\* C9 amended: a PUT or PATCH whose path id is a positive integer naming an
\* existing record, that submits the record's own username, whose body has
\* no key other than username and displayName and whose displayName (which
\* a PATCH may omit) is a string of 2 to 50 characters, gets 200
C9_OwnUsernameAccepted ==
  [][(/\ lastReq'.method \in {"PUT", "PATCH"}
      /\ SubmitsOwnUsername(mockedUsers, lastReq')
      /\ isInt(lastReq'.id, 1)
      /\ \A i \in 1..Len(lastReq'.body) : lastReq'.body[i].k \in allowedFields
      /\ (lastReq'.method = "PUT" \/ HasKey(lastReq'.body, "displayName"))
           => ValidDisplayName(Field(lastReq'.body, "displayName")))
       => (lastRes'.status = 200 /\ ~HasMsg(lastRes', UsernameExists))]_vars

\* an update with the record's own username succeeded after another record
\* had been deleted
C9_Witness ==
  /\ lastReq.method \in {"PUT", "PATCH"}
  /\ lastRes.status = 200
  /\ deleted # {}
  /\ \E i \in 1..Len(seedUsers) :
       /\ seedUsers[i].id = parseInt(lastReq.id)
       /\ Field(lastReq.body, "username") = seedUsers[i].username

\* the keys of the body outside the whitelist, in body order
OffendingKeys(body) == SelectSeq(ObjectKeys(body), LAMBDA k : k \notin {"username", "displayName"})

\* C10: a create, PUT or PATCH whose body has a key other than username
\* and displayName gets 400 with an entry naming exactly the offending
\* keys, and leaves the store unchanged
C10_WhitelistRejected ==
  [][(lastReq'.method \in {"POST", "PUT", "PATCH"}
        /\ OffendingKeys(lastReq'.body) # <<>>)
       => /\ lastRes'.status = 400
          /\ \E i \in 1..Len(lastRes'.details) :
               lastRes'.details[i].fields = OffendingKeys(lastReq'.body)
          /\ mockedUsers' = mockedUsers]_vars

\* a body with two offending keys was rejected by a PATCH
C10_Witness ==
  /\ lastReq.method = "PATCH"
  /\ lastRes.status = 400
  /\ \E i \in 1..Len(lastRes.details) : lastRes.details[i].fields = <<"age", "email">>

\* C11: every record's displayName is a string of 2 to 50 characters with
\* no leading or trailing whitespace
C11_DisplayNameStored ==
  \A i \in 1..Len(mockedUsers) :
    LET d == Prop(mockedUsers[i], "displayName")
    IN /\ d.t = "str"
       /\ Len(d.s) >= 2 /\ Len(d.s) <= 50
       /\ (d.s = <<>> \/ (d.s[1] \notin Whitespace /\ d.s[Len(d.s)] \notin Whitespace))

\* a string of 3 to 20 letters, digits and underscores
ValidUsername(v) ==
  /\ v.t = "str"
  /\ Len(v.s) >= 3 /\ Len(v.s) <= 20
  /\ \A i \in 1..Len(v.s) : v.s[i] \in Letters \cup Digits \cup {"_"}

\* the request would store a username that is not a valid one: a create or
\* PUT stores the body's username, a PATCH stores it when the body has one
SubmitsInvalidUsername(req) ==
  /\ req.method \in {"POST", "PUT", "PATCH"}
  /\ req.method = "PATCH" => HasKey(req.body, "username")
  /\ ~ValidUsername(Field(req.body, "username"))

\* C12: every record's username is a string of 3 to 20 letters, digits and
\* underscores, and a create, PUT or PATCH that would store any other
\* username is answered 400
C12_UsernameStored ==
  /\ [](\A i \in 1..Len(mockedUsers) : ValidUsername(Prop(mockedUsers[i], "username")))
  /\ [][SubmitsInvalidUsername(lastReq') => lastRes'.status = 400]_vars

\* a PATCH of an existing record with a username outside the pattern was
\* rejected after the store had changed
C12_Witness ==
  /\ lastReq.method = "PATCH" /\ lastRes.status = 400
  /\ Field(lastReq.body, "username") = Str(<<"a", "-", "b">>)
  /\ findIndex(mockedUsers, parseInt(lastReq.id)) # 0
  /\ mockedUsers # seedUsers

\* the request is the list request; the other GET carries a path id
IsList(req) == req.method = "GET" /\ req.id = <<>>

IdBased(req) == req.method \in {"PUT", "PATCH", "DELETE"} \/ (req.method = "GET" /\ ~IsList(req))

\* the error list the validation chains of the request's route collect
RouteErrors(users, req) ==
  IF IsList(req) THEN getUsersQuery(req)
  ELSE IF req.method = "POST" THEN createUser(users, req).errors
  ELSE IF req.method \in {"PUT", "PATCH"} THEN UpdateErrors(users, req)
  ELSE userIdParam(req)

Occurrences(seq, x) == Cardinality({i \in 1..Len(seq) : seq[i] = x})

\* C13: the gate decides once per request; with a non-empty error list the
\* response is 400 {error: "Validation failed", details: the list} and no
\* later step runs; with an empty list the next step runs exactly once and
\* the response is not the gate's
C13_GateDecidesOnce ==
  [][LET errors == RouteErrors(mockedUsers, lastReq')
     IN /\ Occurrences(ran', "gate") = 1
        /\ errors # <<>> =>
             /\ lastRes' = ValidationFailed(errors)
             /\ ran' = <<"validate", "gate">>
             /\ mockedUsers' = mockedUsers
        /\ errors = <<>> =>
             /\ Len(ran') >= 3
             /\ ran'[3] = (IF IdBased(lastReq') THEN "lookup" ELSE "handler")
             /\ Occurrences(ran', ran'[3]) = 1
             /\ lastRes'.error = "" /\ lastRes'.details = <<>>]_vars

\* the gate stopped a PUT of an existing record with two failures
C13_Witness ==
  /\ lastReq.method = "PUT"
  /\ lastRes.error = "Validation failed" /\ Len(lastRes.details) >= 2
  /\ ran = <<"validate", "gate">>
  /\ findIndex(mockedUsers, parseInt(lastReq.id)) # 0

IsPrefix(s, t) == Len(s) <= Len(t) /\ SubSeq(t, 1, Len(s)) = s

\* C14: an id-based request runs validation, then the lookup, then the
\* handler: the lookup only after validation accepted, the handler (and so
\* any mutation) only after the lookup found the record; a request that
\* fails validation and names no record gets 400, and a 404 goes only to a
\* request that passed validation
C14_ValidateLookupExecute ==
  [][IdBased(lastReq') =>
       LET errors == RouteErrors(mockedUsers, lastReq')
           found == findIndex(mockedUsers, parseInt(lastReq'.id)) # 0
       IN /\ IsPrefix(ran', <<"validate", "gate", "lookup", "handler">>)
          /\ Occurrences(ran', "lookup") = 1 <=> errors = <<>>
          /\ Occurrences(ran', "handler") = 1 <=> (errors = <<>> /\ found)
          /\ mockedUsers' # mockedUsers => Occurrences(ran', "handler") = 1
          /\ (errors # <<>> /\ ~found) => lastRes'.status = 400
          /\ lastRes'.status = 404 => (errors = <<>> /\ ~found)]_vars

\* a PUT with a well-formed id of no record and an invalid body got 400
C14_Witness ==
  /\ lastReq.method = "PUT" /\ lastRes.status = 400
  /\ isInt(lastReq.id, 1)
  /\ findIndex(mockedUsers, parseInt(lastReq.id)) = 0
  /\ ran = <<"validate", "gate">>

\* sub occurs in s as a run of consecutive characters
IsSubstring(sub, s) ==
  \E i \in 1..(Len(s) + 1) :
    i + Len(sub) - 1 <= Len(s) /\ \A k \in 1..Len(sub) : s[i + k - 1] = sub[k]

\* the records whose username or displayName contains the value, in store order
Matching(users, filter, value) ==
  SelectSeq(users, LAMBDA user :
    IF filter = KeyChars.username THEN IsSubstring(value, user.username.s)
    ELSE IsSubstring(value, user.displayName.s))

\* the list request has a filter of the two fields and a string value
FilteredQuery(req) ==
  /\ IsList(req)
  /\ HasKey(req.query, "filter") /\ HasKey(req.query, "value")
  /\ Field(req.query, "filter") \in {Str(KeyChars.username), Str(KeyChars.displayName)}
  /\ Field(req.query, "value").t = "str"

\* C15 as stated: the list request with neither filter nor value returns
\* all records in store order; with a filter of the two fields and a value
\* it returns the records whose field contains the value, in store order
C15_Original ==
  [][/\ (IsList(lastReq') /\ lastReq'.query = <<>>) => lastRes' = sendList(mockedUsers)
     /\ FilteredQuery(lastReq') =>
          lastRes' = sendList(Matching(mockedUsers,
                                       Field(lastReq'.query, "filter").s,
                                       Field(lastReq'.query, "value").s))]_vars

\* C15 amended: the list request with neither filter nor value returns all
\* records in store order; with a filter of the two fields and a value of
\* 1 to 50 characters it returns the records whose field contains the
\* value (case-sensitive), in store order; a value that is empty or longer
\* than 50 characters is answered 400; the store is not changed
C15_ListFilter ==
  [][/\ (IsList(lastReq') /\ lastReq'.query = <<>>) => lastRes' = sendList(mockedUsers)
     /\ (/\ FilteredQuery(lastReq')
         /\ Len(Field(lastReq'.query, "value").s) \in 1..50) =>
          lastRes' = sendList(Matching(mockedUsers,
                                       Field(lastReq'.query, "filter").s,
                                       Field(lastReq'.query, "value").s))
     /\ (/\ FilteredQuery(lastReq')
         /\ Len(Field(lastReq'.query, "value").s) \notin 1..50) =>
          /\ lastRes'.status = 400
          /\ HasMsg(lastRes', "Value must be a string between 1 and 50 characters")
     /\ IsList(lastReq') => mockedUsers' = mockedUsers]_vars

\* the filter displayName/"Doe" returned the one record left that matches
C15_Witness ==
  /\ FilteredQuery(lastReq)
  /\ Field(lastReq.query, "value") = Str(<<"D", "o", "e">>)
  /\ lastRes.status = 200 /\ Len(lastRes.list) = 1
  /\ Len(mockedUsers) > 1

\* C16: the list request with a filter and no value is answered 400 with
\* "Value is required when filter is provided", with a value and no filter
\* 400 with "Filter is required when value is provided", and the list
\* handler never runs with exactly one of the two set
C16_FilterValuePaired ==
  [][IsList(lastReq') =>
       LET filter == Field(lastReq'.query, "filter")
           value == Field(lastReq'.query, "value")
       IN /\ (Truthy(filter) /\ ~Truthy(value)) =>
               /\ lastRes'.status = 400
               /\ HasMsg(lastRes', "Value is required when filter is provided")
          /\ (Truthy(value) /\ ~Truthy(filter)) =>
               /\ lastRes'.status = 400
               /\ HasMsg(lastRes', "Filter is required when value is provided")
          /\ Occurrences(ran', "handler") > 0 => (Truthy(filter) <=> Truthy(value))]_vars

\* a list request with a value and no filter parameter was rejected
C16_Witness ==
  /\ IsList(lastReq)
  /\ HasKey(lastReq.query, "value") /\ ~HasKey(lastReq.query, "filter")
  /\ lastRes.status = 400
  /\ HasMsg(lastRes, "Filter is required when value is provided")

\* the text is an integer of at least 1: an optional sign, then digits
\* only, and a value of 1 or more
PositiveIntegerText(s) ==
  LET signed == Len(s) >= 1 /\ s[1] \in {"+", "-"}
      digits == IF signed THEN Tail(s) ELSE s
  IN /\ Len(digits) >= 1
     /\ \A i \in 1..Len(digits) : digits[i] \in Digits
     /\ ~(signed /\ s[1] = "-")
     /\ \E i \in 1..Len(digits) : digits[i] # "0"

\* C17: on GET, PUT, PATCH and DELETE of /api/users/:id a path id that is
\* not an integer of at least 1 is answered 400 with a details entry "ID
\* must be a positive integer", never 404, and the store is unchanged
C17_BadIdRejected ==
  [][(IdBased(lastReq') /\ ~PositiveIntegerText(lastReq'.id))
       => /\ lastRes'.status = 400
          /\ \E i \in 1..Len(lastRes'.details) :
               /\ lastRes'.details[i].msg = "ID must be a positive integer"
               /\ lastRes'.details[i].path = "id"
          /\ mockedUsers' = mockedUsers]_vars

\* a delete with the path id 0 was rejected after an earlier delete
C17_Witness ==
  /\ lastReq.method = "DELETE" /\ lastReq.id = <<"0">>
  /\ lastRes.status = 400
  /\ deleted # {}

\* C18 as stated: a PUT answered 200 leaves at the record's position the
\* record's id with the username and displayName of the request body, and
\* every other record unchanged
C18_Original ==
  [][(lastReq'.method = "PUT" /\ lastRes'.status = 200)
       => LET i == findIndex(mockedUsers, parseInt(lastReq'.id))
          IN /\ i # 0
             /\ mockedUsers' =
                  [mockedUsers EXCEPT ![i] =
                     [id |-> mockedUsers[i].id,
                      username |-> Field(lastReq'.body, "username"),
                      displayName |-> Field(lastReq'.body, "displayName")]]]_vars

\* C18 amended: a PUT answered 200 leaves at the record's position exactly
\* the record's id, the username of the request body and the displayName of
\* the request body with leading and trailing whitespace stripped, and
\* every other record unchanged
C18_PutReplaces ==
  [][(lastReq'.method = "PUT" /\ lastRes'.status = 200)
       => LET i == findIndex(mockedUsers, parseInt(lastReq'.id))
          IN /\ i # 0
             /\ mockedUsers[i].id = parseInt(lastReq'.id)
             /\ mockedUsers' =
                  [mockedUsers EXCEPT ![i] =
                     [id |-> mockedUsers[i].id,
                      username |-> Field(lastReq'.body, "username"),
                      displayName |-> Str(trim(Field(lastReq'.body, "displayName").s))]]]_vars

\* a PUT with a padded displayName replaced a record that is not the first
C18_Witness ==
  /\ lastReq.method = "PUT" /\ lastRes.status = 200
  /\ Field(lastReq.body, "displayName") = Str(<<" ", " ", "A", "l", " ">>)
  /\ findIndex(mockedUsers, parseInt(lastReq.id)) > 1

\* the value a successful update stores for a body field
StoredValue(body, k) ==
  IF k = "displayName" THEN Str(trim(Field(body, k).s)) ELSE Field(body, k)

\* C19: a PATCH answered 200 overwrites exactly the fields present in the
\* request body (displayName with its whitespace stripped) and leaves the
\* record's id, the fields absent from the body, the record's position and
\* every other record unchanged
C19_PatchMerges ==
  [][(lastReq'.method = "PATCH" /\ lastRes'.status = 200)
       => LET i == findIndex(mockedUsers, parseInt(lastReq'.id))
              present == {ObjectKeys(lastReq'.body)[k] : k \in 1..Len(lastReq'.body)}
          IN /\ i # 0
             /\ present # {} /\ "id" \notin present
             /\ Len(mockedUsers') = Len(mockedUsers)
             /\ \A j \in 1..Len(mockedUsers) : j # i => mockedUsers'[j] = mockedUsers[j]
             /\ DOMAIN mockedUsers'[i] = DOMAIN mockedUsers[i]
             /\ \A k \in DOMAIN mockedUsers[i] :
                  mockedUsers'[i][k] = IF k \in present
                                       THEN StoredValue(lastReq'.body, k)
                                       ELSE mockedUsers[i][k]]_vars

\* a PATCH carrying only a username changed a record's username
C19_Witness ==
  /\ lastReq.method = "PATCH" /\ lastRes.status = 200
  /\ ObjectKeys(lastReq.body) = <<"username">>
  /\ \E i \in 1..Len(mockedUsers) :
       /\ mockedUsers[i].id = parseInt(lastReq.id)
       /\ mockedUsers[i].username = Field(lastReq.body, "username")
       /\ mockedUsers[i] \notin {seedUsers[j] : j \in 1..Len(seedUsers)}

AtLeastOneField == "At least one field (username or displayName) must be provided for update"

\* C20: a PATCH whose body has no fields is answered 400 with the message
\* "At least one field (username or displayName) must be provided for
\* update", whether or not the path id names a record, and the store is
\* unchanged
C20_EmptyPatchRejected ==
  [][(lastReq'.method = "PATCH" /\ lastReq'.body = <<>>)
       => /\ lastRes'.status = 400
          /\ HasMsg(lastRes', AtLeastOneField)
          /\ mockedUsers' = mockedUsers]_vars

\* an empty PATCH on the id of a deleted record was rejected with the message
C20_Witness ==
  /\ lastReq.method = "PATCH" /\ lastReq.body = <<>>
  /\ lastRes.status = 400 /\ HasMsg(lastRes, AtLeastOneField)
  /\ parseInt(lastReq.id).n \in deleted

\* C21: a delete answered 200 removes exactly the record with the path's
\* id: the store shrinks by one record and every other record keeps its
\* id, its field values and its relative order
C21_DeleteRemovesOne ==
  [][(lastReq'.method = "DELETE" /\ lastRes'.status = 200)
       => \E i \in 1..Len(mockedUsers) :
            /\ mockedUsers[i].id = parseInt(lastReq'.id)
            /\ Len(mockedUsers') = Len(mockedUsers) - 1
            /\ \A j \in 1..Len(mockedUsers') :
                 mockedUsers'[j] = IF j < i THEN mockedUsers[j] ELSE mockedUsers[j + 1]
            /\ \A j \in 1..Len(mockedUsers') : mockedUsers'[j].id # parseInt(lastReq'.id)]_vars

\* the first record was deleted from a store holding a created record
C21_Witness ==
  /\ lastReq.method = "DELETE" /\ lastReq.id = <<"1">> /\ lastRes.status = 200
  /\ Len(mockedUsers) = 5
  /\ mockedUsers[1].id = Num(2) /\ mockedUsers[5].id = Num(6)

\* the checks the create route declares, in declaration order, each with
\* whether it fails on the body as submitted
DeclaredCreateChecks(users, body) ==
  LET u == Field(body, "username")
      d == Field(body, "displayName")
      us == toString(u)
      ds == toString(d)
      Entry(fails, msg, path) == [fails |-> fails, msg |-> msg, path |-> path]
  IN << Entry(us = <<>>, "Username is required", "username"),
        Entry(u.t # "str", "Username must be a string", "username"),
        Entry(Len(us) < 3 \/ Len(us) > 20,
              "Username must be between 3 and 20 characters", "username"),
        Entry(us = <<>> \/ \E i \in 1..Len(us) : us[i] \notin WordChars,
              "Username can only contain letters, numbers, and underscores", "username"),
        Entry(\E i \in 1..Len(users) : u.t = "str" /\ users[i].username = u,
              UsernameExists, "username"),
        Entry(ds = <<>>, "Display name is required", "displayName"),
        Entry(d.t # "str", "Display name must be a string", "displayName"),
        Entry(Len(ds) < 2 \/ Len(ds) > 50,
              "Display name must be between 2 and 50 characters", "displayName"),
        Entry(\E i \in 1..Len(body) : body[i].k \notin {"username", "displayName"},
              "Invalid fields: %s. Only username and displayName are allowed.", "") >>

\* C25: validation runs every chain and every check of a chain whatever
\* failed before: the details of a create's 400 response hold one entry per
\* failing check of every field, in declaration order, and a create none of
\* whose checks fails is not answered 400
C25_AllFailuresCollected ==
  [][lastReq'.method = "POST" =>
       LET failing == SelectSeq(DeclaredCreateChecks(mockedUsers, lastReq'.body),
                                LAMBDA c : c.fails)
       IN /\ lastRes'.status = 400 <=> failing # <<>>
          /\ lastRes'.status = 400 =>
               /\ Len(lastRes'.details) = Len(failing)
               /\ \A i \in 1..Len(failing) :
                    /\ lastRes'.details[i].msg = failing[i].msg
                    /\ lastRes'.details[i].path = failing[i].path]_vars

\* a create with both fields missing got entries for username and for
\* displayName
C25_Witness ==
  /\ lastReq.method = "POST" /\ lastReq.body = <<>>
  /\ lastRes.status = 400
  /\ Len(lastRes.details) = 7
  /\ lastRes.details[1].path = "username" /\ lastRes.details[7].path = "displayName"

\* C30: the records are held in strictly increasing id order, so the last
\* record carries the largest id and the ids are pairwise distinct
C30_IdsIncreasing ==
  /\ \A i, j \in 1..Len(mockedUsers) :
       i < j => (/\ mockedUsers[i].id.t = "num" /\ mockedUsers[j].id.t = "num"
                 /\ mockedUsers[i].id.n < mockedUsers[j].id.n)
  /\ \A i \in 1..Len(mockedUsers) :
       mockedUsers[i].id.n <= mockedUsers[Len(mockedUsers)].id.n

\* a create carrying the body key id was rejected, after a delete and with
\* the store still in id order
C30_Witness ==
  /\ lastReq.method = "POST" /\ HasKey(lastReq.body, "id")
  /\ lastRes.status = 400
  /\ deleted # {}
  /\ Len(mockedUsers) = 4

\* the username request i of the requests in flight was sent with
SentUsername(i) == Field(pending[i].sent, "username")

InSeed(u) == \E k \in 1..Len(seedUsers) : seedUsers[k].username = u

\* C22: of two creates in flight with the same, previously unused username
\* (and no third one with it), once both are answered exactly one got 201
\* and the other 400 with "Username already exists", and the store never
\* holds two records with that username
C22_ConcurrentDuplicate ==
  \A i, j \in 1..Len(pending) :
    (/\ i < j
     /\ SentUsername(i) = SentUsername(j) /\ ~InSeed(SentUsername(i))
     /\ \A k \in 1..Len(pending) : SentUsername(k) = SentUsername(i) => k \in {i, j})
      => /\ Cardinality({k \in 1..Len(mockedUsers) :
                           mockedUsers[k].username = SentUsername(i)}) <= 1
         /\ (pending[i].pc = "done" /\ pending[j].pc = "done")
              => \E a, b \in {i, j} :
                   /\ a # b
                   /\ pending[a].res.status = 201
                   /\ pending[b].res.status = 400
                   /\ HasMsg(pending[b].res, UsernameExists)

\* C23: creates in flight with distinct valid usernames all succeed, no two
\* of them are assigned the same id, and the ids of the store stay pairwise
\* distinct
C23_ConcurrentDistinct ==
  /\ \A i, j \in 1..Len(mockedUsers) : i # j => mockedUsers[i].id # mockedUsers[j].id
  /\ \A i, j \in 1..Len(pending) :
       (i # j /\ pending[i].res.status = 201 /\ pending[j].res.status = 201)
         => \A r \in pending[i].res.user, q \in pending[j].res.user : r.id # q.id
  /\ \A i \in 1..Len(pending) :
       (/\ pending[i].pc = "done"
        /\ ~InSeed(SentUsername(i))
        /\ \A k \in 1..Len(pending) : k # i => SentUsername(k) # SentUsername(i))
         => /\ pending[i].res.status = 201
            /\ \E k \in 1..Len(mockedUsers) :
                 /\ mockedUsers[k].username = SentUsername(i)
                 /\ pending[i].res.user = {mockedUsers[k]}

\* of two creates with distinct usernames in flight together, the one
\* sent second was stored first and both were answered 201
C23_Witness ==
  /\ Len(pending) = 2
  /\ SentUsername(1) # SentUsername(2)
  /\ pending[1].res.status = 201 /\ pending[2].res.status = 201
  /\ \E r \in pending[1].res.user : r.id = Num(7)
  /\ \E q \in pending[2].res.user : q.id = Num(6)

\* C24: a valid create sent when the store is empty ends in a defined
\* error response (InvariantViolation), not in an exception thrown by the
\* handler, and leaves the store empty
C24_EmptyStoreCreate ==
  [][(/\ lastReq'.method = "POST"
      /\ Len(mockedUsers) = 0
      /\ RouteErrors(mockedUsers, lastReq') = <<>>)
       => /\ lastRes'.status # 500
          /\ lastRes'.error = "InvariantViolation"
          /\ mockedUsers' = <<>>]_vars

\* C26: in the standalone server a create whose username is the username
\* of a record of the store is answered 400 and the store gains no record
C26_StandaloneDuplicate ==
  [][(/\ lastReq'.method = "POST"
      /\ \E i \in 1..Len(mockedUsers) :
           PropNamed(mockedUsers[i], KeyChars.username) = Field(lastReq'.body, "username"))
       => (lastRes'.status = 400 /\ mockedUsers' = mockedUsers)]_vars

\* C27: in the standalone server a PUT or PATCH answered 200 leaves the
\* addressed record with the id it had, whatever keys the body has
C27_StandaloneIdKept ==
  [][(lastReq'.method \in {"PUT", "PATCH"} /\ lastRes'.status = 200)
       => LET i == findIndex(mockedUsers, parseInt(lastReq'.id))
          IN /\ i # 0
             /\ Len(mockedUsers') = Len(mockedUsers)
             /\ mockedUsers'[i].id = mockedUsers[i].id]_vars

\* the field of the record named by the text is a string containing the value
FieldContains(user, name, value) ==
  \E k \in DOMAIN user :
    /\ KeyChars[k] = name
    /\ user[k].t = "str"
    /\ IsSubstring(value, user[k].s)

\* C28: in the standalone server a list request whose filter and value
\* pass the query validation is answered 200 with the records whose named
\* field contains the value, a record without that field being no match
C28_StandaloneFilter ==
  [][(/\ IsList(lastReq')
      /\ HasKey(lastReq'.query, "filter") /\ HasKey(lastReq'.query, "value")
      /\ index_query(lastReq') = <<>>)
       => /\ lastRes'.status = 200
          /\ lastRes'.list =
               SelectSeq(mockedUsers, LAMBDA user :
                 FieldContains(user, Field(lastReq'.query, "filter").s,
                               Field(lastReq'.query, "value").s))]_vars

\* C29: in the standalone server's create route, with a valid username, a
\* non-empty displayName is accepted exactly when it has 5 to 15 characters
C29_StandaloneDisplayName ==
  [][(/\ lastReq'.method = "POST"
      /\ Len(mockedUsers) > 0
      /\ Field(lastReq'.body, "username").t = "str"
      /\ Len(Field(lastReq'.body, "username").s) \in 5..15
      /\ Field(lastReq'.body, "displayName").t = "str"
      /\ Field(lastReq'.body, "displayName").s # <<>>)
       => (lastRes'.status = 201
             <=> Len(Field(lastReq'.body, "displayName").s) \in 5..15)]_vars

====
